---- MODULE Spec2Model ----
(***************************************************************************)
(* Verification model of the AI data-analysis assistant (Streamlit app).   *)
(*                                                                         *)
(* Three specifications share this module:                                 *)
(*   Spec       the six-stage wizard over the session dictionary           *)
(*   SpecParse  the two response parsers, as pure functions over texts     *)
(*   SpecExec   the code sandbox execute_snippet                           *)
(*                                                                         *)
(* Texts are sequences of tokens.  A token stands for a substring of the   *)
(* Python string; str.startswith, str.strip, splitlines and the header     *)
(* regexes are computed over the tokens.                                   *)
(* An optional value (Python None or a value) is a sequence of length 0    *)
(* or 1: None == << >>, Some(v) == <<v>>.                                  *)
(* A Python dict is a sequence of <<key, value>> pairs in insertion order. *)
(***************************************************************************)
EXTENDS Integers, Sequences, FiniteSets, TLC

VARIABLES
    ss,              \* st.session_state: key -> value
    rerun,           \* a script run ended in st.rerun(); the next run is due
    guidance_in,   \* argument of parse_associate_tasks
    tasks_out, \* its result, once called
    response_in,   \* argument of parse_analyst_task_response
    parts_out,   \* its result, once called
    exec_code,       \* the snippet of the last execute_snippet call
    exec_dfs,        \* the dataframes of the last execute_snippet call
    exec_ns,         \* local_ns of the last call, after exec
    exec_ret,        \* what the last call returned
    upload_in,       \* argument of process_uploaded_file
    upload_out,      \* its result, once called
    last_event       \* the button pressed in the last script run, if any

vars == <<ss, rerun, guidance_in, tasks_out, response_in,
          parts_out, exec_code, exec_dfs, exec_ns, exec_ret,
          upload_in, upload_out, last_event>>
wizard_vars == <<ss, rerun, last_event>>
tasks_vars == <<guidance_in, tasks_out>>
analyst_vars == <<response_in, parts_out>>
exec_vars == <<exec_code, exec_dfs, exec_ns, exec_ret>>
upload_vars == <<upload_in, upload_out>>

\* ---------------------------------------------------------------- bounds
MaxDetours == 1
MaxGuidanceLen == 5
MaxResponseLen == 4
MaxSnippetLen == 2

\* ------------------------------------------------------- generic helpers
None == << >>
Some(v) == <<v>>
IsNone(o) == o = << >>
\* Python truthiness of an optional string: not None and not "".
Truthy(o) == o # << >> /\ o[1] # << >>

Range(f) == {f[i] : i \in DOMAIN f}

\* str.startswith
StartsWith(s, p) == Len(s) >= Len(p) /\ SubSeq(s, 1, Len(p)) = p

\* dict helpers (insertion ordered)
EmptyDict == << >>
Keys(d) == {d[i][1] : i \in DOMAIN d}
HasKey(d, k) == \E i \in DOMAIN d : d[i][1] = k
Get(d, k) == d[CHOOSE i \in DOMAIN d : d[i][1] = k][2]
Put(d, k, v) == IF HasKey(d, k)
                THEN [i \in DOMAIN d |-> IF d[i][1] = k THEN <<k, v>> ELSE d[i]]
                ELSE Append(d, <<k, v>>)

\* the element of a one-element set; TheOne({F(v) : v \in {x}}) is F(x),
\* with x computed once however often F uses it
TheOne(S) == CHOOSE y \in S : TRUE

\* session_state[k] = v (creates the key when absent)
Set(s, k, v) == [x \in (DOMAIN s) \cup {k} |-> IF x = k THEN v ELSE s[x]]

\* ------------------------------------------------------------- LLM texts
\* The four messages get_gemini_response can return instead of a response,
\* and the prefix the stages test for.
ErrorPrefix == <<"Error", ":">>
ErrNoKey == <<"Error", ":", " Gemini API key not configured. Please add it in the sidebar settings.">>
ErrConfigure == <<"Error", ":", " Failed to configure Gemini API with the provided key.">>
ErrEmptyResponse == <<"Error", ":", " Received empty response from API.">>
ErrException == <<"Error", " generating Gemini response: ", "e">>
ErrorMessages == {ErrNoKey, ErrConfigure, ErrEmptyResponse, ErrException}

\* The text of a successful response (response.text), and the empty text.
OkText == <<"Task 1:", "x">>
EmptyText == << >>

\* What the hosted API does on one call.
LLMOutcomes == {"ok", "no_text_attr", "raises"}

\* --------------------------------------------------------- session state
EnvApiKey == ""
ApiKeys == {"", "key"}
DefaultModel == "gemini-2.5-flash-preview-04-17"
Models == {DefaultModel, "gemini-2.0-flash"}
LibraryOptions == {"Manual", "Automated (Experimental)"}

\* A prompt template is the one of prompts.py ("std") or a user edit; the
\* edit "bad" names a placeholder the stage does not supply (KeyError).
TemplateValues == {"std", "bad"}
PromptKeys == {"manager_prompt_template", "analyst_prompt_template",
               "associate_prompt_template", "analyst_task_prompt_template",
               "associate_review_prompt_template",
               "manager_report_prompt_template", "reviewer_prompt_template"}

BaseDefaults ==
    [project_initialized |-> FALSE,
     current_step |-> 0,
     data_uploaded |-> FALSE,
     dataframes |-> EmptyDict,
     data_profiles |-> EmptyDict,
     data_texts |-> EmptyDict,
     project_name |-> "Default Project",
     problem_statement |-> "",
     data_context |-> "",
     manager_plan |-> None,
     analyst_summary |-> None,
     associate_guidance |-> None,
     analysis_results |-> << >>,
     final_report |-> None,
     conversation_history |-> << >>,
     consultation_response |-> None,
     consultation_persona |-> None,
     reviewer_response |-> None,
     reviewer_specific_request |-> None,
     gemini_api_key |-> EnvApiKey,
     gemini_model |-> DefaultModel,
     library_management |-> "Manual"]

\* app.py: the module-level defaults, prompt templates loaded from prompts.py
defaults == [k \in (DOMAIN BaseDefaults) \cup PromptKeys |->
               IF k \in PromptKeys THEN "std" ELSE BaseDefaults[k]]

\* ui_helpers.py: the defaults of reset_session, prompt templates ""
reset_defaults == [k \in (DOMAIN BaseDefaults) \cup PromptKeys |->
                     IF k \in PromptKeys THEN "" ELSE BaseDefaults[k]]

\* for key, value in defaults.items(): if key not in st.session_state: ...
ApplyDefaults(s, d) == [k \in (DOMAIN s) \cup (DOMAIN d) |->
                          IF k \in DOMAIN s THEN s[k] ELSE d[k]]

\* st.session_state.update(prompts)
Update(s, u) == [k \in (DOMAIN s) \cup (DOMAIN u) |->
                   IF k \in DOMAIN u THEN u[k] ELSE s[k]]

EndsWithPromptTemplate(k) == k \in PromptKeys

\* reset_session without `st.session_state.clear()`
reset_session_NoClear(s) ==
    Set(Set(Set(ApplyDefaults(s, reset_defaults),
                "gemini_api_key", s.gemini_api_key),
            "gemini_model", s.gemini_model),
        "library_management", s.library_management)

reset_session(s) ==
    LET current_api_key == IF "gemini_api_key" \in DOMAIN s
                           THEN s.gemini_api_key ELSE EnvApiKey
        current_model == IF "gemini_model" \in DOMAIN s
                         THEN s.gemini_model ELSE DefaultModel
        current_lib_mgmt == IF "library_management" \in DOMAIN s
                            THEN s.library_management ELSE "Manual"
        prompts == [k \in {x \in DOMAIN s : EndsWithPromptTemplate(x)} |-> s[k]]
        cleared == [k \in {} |-> 0]
        s1 == ApplyDefaults(cleared, reset_defaults)
        s2 == Set(s1, "gemini_api_key", current_api_key)
        s3 == Set(s2, "gemini_model", current_model)
        s4 == Set(s3, "library_management", current_lib_mgmt)
    IN Update(s4, prompts)

\* Variant of add_to_conversation that puts the new entry in front.
add_to_conversation_Prepend(s, role, content) ==
    [s EXCEPT !.conversation_history =
        <<[role |-> role, content |-> content]>> \o @]

add_to_conversation(s, role, content) ==
    [s EXCEPT !.conversation_history =
        Append(@, [role |-> role, content |-> content])]

\* check_api_key that finds a key whatever the session holds
check_api_key_AlwaysTrue(s) == TRUE

check_api_key(s) == s.gemini_api_key # ""

\* The message or response text one call returns.  configure_genai fails
\* when genai.configure raises; the except branch returns the message built
\* from the exception.
get_gemini_response(s, outcome) ==
    LET current_api_key == IF "gemini_api_key" \in DOMAIN s
                           THEN s.gemini_api_key ELSE EnvApiKey
    IN IF current_api_key = "" THEN ErrNoKey
       ELSE IF outcome = "configure_fails" THEN ErrConfigure
       ELSE IF outcome = "raises" THEN ErrException
       ELSE IF outcome = "no_text_attr" THEN ErrEmptyResponse
       ELSE IF outcome = "empty_text" THEN EmptyText
       ELSE OkText

\* `if response and not response.startswith("Error:")`
ResponseAccepted(r) == r # << >> /\ ~StartsWith(r, ErrorPrefix)

\* ------------------------------------------------------- text primitives
\* Whitespace tokens (str.strip, regex \s) and the line boundary.
Newline == "\n"
IsSpace(t) == t \in {" ", Newline}

RECURSIVE LStrip(_)
LStrip(t) == IF t # << >> /\ IsSpace(Head(t)) THEN LStrip(Tail(t)) ELSE t

RECURSIVE RStrip(_)
RStrip(t) == IF t # << >> /\ IsSpace(t[Len(t)])
             THEN RStrip(SubSeq(t, 1, Len(t) - 1)) ELSE t

\* str.strip()
Strip(t) == RStrip(LStrip(t))

\* str.splitlines(keepends=True): a line ends after each newline token; a
\* text that ends with a newline has no empty last line.
RECURSIVE SplitFrom(_, _, _)
SplitFrom(t, i, cur) ==
    IF i > Len(t) THEN (IF cur = << >> THEN << >> ELSE <<cur>>)
    ELSE IF t[i] = Newline
         THEN <<Append(cur, t[i])>> \o SplitFrom(t, i + 1, << >>)
         ELSE SplitFrom(t, i + 1, Append(cur, t[i]))

splitlines(t) == SplitFrom(t, 1, << >>)

\* "".join(lines)
RECURSIVE Join(_)
Join(lines) == IF lines = << >> THEN << >> ELSE Head(lines) \o Join(Tail(lines))

\* ------------------------------------------------- parse_associate_tasks
StopTok == "5. Develop Narrative:"
TaskHeaderToks == {"Task 1:", "**Task 2:**"}
ManualTask == <<"Manually define task below">>
DefaultTaskPrompt == <<"Manually define task based on guidance above.">>

\* task_header_pattern.match(line.strip())
header_match(line) ==
    LET line_stripped == Strip(line)
    IN line_stripped # << >> /\ Head(line_stripped) \in TaskHeaderToks

\* Variant of ScanLines that never tests for the stop line.
RECURSIVE ScanLines_NoStop(_, _, _, _)
ScanLines_NoStop(lines, i, current_task_block, formatted_tasks) ==
    LET close == IF current_task_block # << >>
                 THEN Append(formatted_tasks, Strip(Join(current_task_block)))
                 ELSE formatted_tasks
    IN IF i > Len(lines) THEN close
       ELSE IF header_match(lines[i])
            THEN ScanLines_NoStop(lines, i + 1, <<lines[i]>>, close)
       ELSE IF current_task_block # << >>
            THEN ScanLines_NoStop(lines, i + 1,
                                  Append(current_task_block, lines[i]),
                                  formatted_tasks)
       ELSE ScanLines_NoStop(lines, i + 1, current_task_block, formatted_tasks)

\* The for loop over the lines: the current block and the blocks closed so
\* far.  The stop line closes the current block and breaks; the statement
\* after the loop then closes the same block once more.
RECURSIVE ScanLines(_, _, _, _)
ScanLines(lines, i, current_task_block, formatted_tasks) ==
    LET close == IF current_task_block # << >>
                 THEN Append(formatted_tasks, Strip(Join(current_task_block)))
                 ELSE formatted_tasks
    IN IF i > Len(lines) THEN close
       ELSE IF StopTok \in Range(lines[i])
            THEN (IF current_task_block # << >>
                  THEN Append(close, Strip(Join(current_task_block)))
                  ELSE close)
       ELSE IF header_match(lines[i])
            THEN ScanLines(lines, i + 1, <<lines[i]>>, close)
       ELSE IF current_task_block # << >>
            THEN ScanLines(lines, i + 1, Append(current_task_block, lines[i]),
                           formatted_tasks)
       ELSE ScanLines(lines, i + 1, current_task_block, formatted_tasks)

\* The blocks found in the text, before the fallbacks.
TaskBlocks(text) ==
    LET NonEmpty(task) == task # << >>
    IN TheOne({SelectSeq(ScanLines(lines, 1, << >>, << >>), NonEmpty) :
               lines \in {splitlines(Strip(text))}})

\* Variant of Unique that keeps every task.
Unique_KeepAll(tasks, seen) == tasks

\* seen = set(); keep the first occurrence of each task
RECURSIVE Unique(_, _)
Unique(tasks, seen) ==
    IF tasks = << >> THEN << >>
    ELSE IF Head(tasks) \in seen THEN Unique(Tail(tasks), seen)
    ELSE <<Head(tasks)>> \o Unique(Tail(tasks), seen \cup {Head(tasks)})

\* list.remove(x): drops the first occurrence of x
RemoveFirst(sq, x) ==
    IF x \notin Range(sq) THEN sq
    ELSE LET i == CHOOSE j \in DOMAIN sq :
                     sq[j] = x /\ \A k \in 1..(j - 1) : sq[k] # x
         IN SubSeq(sq, 1, i - 1) \o SubSeq(sq, i + 1, Len(sq))

\* Variant of parse_associate_tasks that does not add the manual option.
parse_associate_tasks_NoManual(guidance_text) ==
    IF ~Truthy(guidance_text) THEN << >>
    ELSE LET text == guidance_text[1]
             blocks == TaskBlocks(text)
             with_fallback == IF blocks = << >> /\ Strip(text) # << >>
                              THEN <<Strip(text)>> ELSE blocks
         IN IF with_fallback = << >> THEN <<DefaultTaskPrompt>>
            ELSE Unique(with_fallback, {})

\* Variant of parse_associate_tasks without the whole-text fallback.
parse_associate_tasks_NoFallback(guidance_text) ==
    IF ~Truthy(guidance_text) THEN << >>
    ELSE LET blocks == TaskBlocks(guidance_text[1])
         IN IF blocks = << >> THEN <<DefaultTaskPrompt>>
            ELSE LET with_manual == IF ManualTask \notin Range(blocks)
                                    THEN Append(blocks, ManualTask)
                                    ELSE blocks
                     unique_formatted_tasks == Unique(with_manual, {})
                 IN Append(RemoveFirst(unique_formatted_tasks, ManualTask),
                           ManualTask)

\* `if not formatted_tasks and guidance_text.strip()`: the whole text as the
\* single option
WholeTextFallback(text, blocks) ==
    IF blocks = << >> /\ Strip(text) # << >> THEN <<Strip(text)>> ELSE blocks

\* the manual option appended when it is missing
WithManualOption(formatted_tasks) ==
    IF ManualTask \notin Range(formatted_tasks)
    THEN Append(formatted_tasks, ManualTask)
    ELSE formatted_tasks

\* the manual option moved to the end
ManualOptionLast(unique_formatted_tasks) ==
    IF ManualTask \in Range(unique_formatted_tasks)
    THEN Append(RemoveFirst(unique_formatted_tasks, ManualTask), ManualTask)
    ELSE unique_formatted_tasks

\* from the fallbacks on; formatted_tasks are the blocks or the whole text
FinishTasks(formatted_tasks) ==
    IF formatted_tasks = << >> THEN <<DefaultTaskPrompt>>
    ELSE TheOne({IF moved = << >> THEN <<DefaultTaskPrompt>> ELSE moved :
                 moved \in {ManualOptionLast(unique_formatted_tasks) :
                     unique_formatted_tasks \in
                         {Unique(with_manual, {}) :
                             with_manual \in
                                 {WithManualOption(formatted_tasks)}}}})

\* guidance_text is None or a text.
parse_associate_tasks(guidance_text) ==
    IF ~Truthy(guidance_text) THEN << >>
    ELSE TheOne({FinishTasks(with_fallback) :
                 with_fallback \in
                     {WholeTextFallback(guidance_text[1], blocks) :
                         blocks \in {TaskBlocks(guidance_text[1])}}})

\* ------------------------------------------- parse_analyst_task_response
\* A header token stands for a substring its pattern matches after the
\* optional number and bolding ("Approach:", "**Python Code:**", ...).
HeaderKeys == [t \in {"Approach:", "Python Code:", "Results:", "Key Insights:"} |->
                 CASE t = "Approach:" -> "approach"
                   [] t = "Python Code:" -> "code"
                   [] t = "Results:" -> "results_text"
                   [] t = "Key Insights:" -> "insights"]
Bold == "**"
\* the code fences: the opening fence with its language, the bare fence
FenceToks == {"<fence>python", "<fence>"}

\* ^ under re.MULTILINE: position p starts a line
LineStart(text, p) == p = 1 \/ text[p - 1] = Newline

\* Where the match that ends with the header token at j starts: the first
\* line start from which only whitespace precedes the header; 0 = no match.
MatchStart(text, j) ==
    LET cands == {p \in 1..j : /\ LineStart(text, p)
                               /\ \A q \in p..(j - 1) : IsSpace(text[q])}
    IN IF cands = {} THEN 0
       ELSE CHOOSE p \in cands : \A q \in cands : p <= q

\* re.finditer for the four patterns
section_matches(text) ==
    {[key |-> HeaderKeys[text[j]], start |-> MatchStart(text, j), end |-> j + 1] :
        j \in {i \in DOMAIN text : /\ text[i] \in DOMAIN HeaderKeys
                                   /\ MatchStart(text, i) # 0}}

\* sorted(section_matches, key=start)
RECURSIVE SortByStart(_)
SortByStart(ms) ==
    IF ms = {} THEN << >>
    ELSE LET m == CHOOSE x \in ms : \A y \in ms : x.start <= y.start
         IN <<m>> \o SortByStart(ms \ {m})

\* re.sub(r"^\s*\*\*", "", content).strip() and the trailing counterpart
StripLeadingBold(c) ==
    LET l == LStrip(c)
    IN Strip(IF l # << >> /\ Head(l) = Bold THEN Tail(l) ELSE c)
StripTrailingBold(c) ==
    LET r == RStrip(c)
    IN Strip(IF r # << >> /\ r[Len(r)] = Bold
             THEN SubSeq(r, 1, Len(r) - 1) ELSE c)

\* re.sub of the fence pattern by "", then strip()
RemoveFences(c) ==
    LET NotFence(t) == t \notin FenceToks
    IN Strip(SelectSeq(c, NotFence))

SectionContent(text, sorted_sections, i) ==
    LET content_end_index == IF i + 1 <= Len(sorted_sections)
                             THEN sorted_sections[i + 1].start
                             ELSE Len(text) + 1
        raw == Strip(SubSeq(text, sorted_sections[i].end, content_end_index - 1))
        content == StripTrailingBold(StripLeadingBold(raw))
    IN IF sorted_sections[i].key = "code" THEN RemoveFences(content) ELSE content

InitialParts ==
    [approach |-> <<"2.Could not parse 'approach' section.">>,
     code |-> <<"Could not parse 'code' section.">>,
     results_text |-> <<"Could not parse 'results_text' section.">>,
     insights |-> <<"Could not parse 'insights' section.">>]

NoResponseParts ==
    [approach |-> <<"Error", ":", " No response from Analyst.">>,
     code |-> << >>, results_text |-> << >>, insights |-> << >>]

\* the loop `for i, section_match in enumerate(sorted_sections)`
RECURSIVE FillParts(_, _, _, _)
FillParts(text, sorted_sections, i, parts) ==
    IF i > Len(sorted_sections) THEN parts
    ELSE FillParts(text, sorted_sections, i + 1,
                   Set(parts, sorted_sections[i].key,
                       SectionContent(text, sorted_sections, i)))

expected_keys == <<"approach", "code", "results_text", "insights">>

\* the loop that adds every expected key still missing
EnsureExpectedKeys(parts) ==
    [k \in (DOMAIN parts) \cup Range(expected_keys) |->
        IF k \in DOMAIN parts THEN parts[k]
        ELSE <<"Could not parse '", k, "' section.">>]

\* Variant of parse_analyst_task_response whose early return for a missing
\* response carries the approach only.
parse_analyst_task_response_ShortError(response_text) ==
    IF ~Truthy(response_text)
    THEN [approach |-> <<"Error", ":", " No response from Analyst.">>]
    ELSE LET text == response_text[1]
             sorted_sections == SortByStart(section_matches(text))
         IN EnsureExpectedKeys(FillParts(text, sorted_sections, 1, InitialParts))

\* response_text is None or a text.
parse_analyst_task_response(response_text) ==
    IF ~Truthy(response_text) THEN NoResponseParts
    ELSE LET text == response_text[1]
             sorted_sections == SortByStart(section_matches(text))
         IN EnsureExpectedKeys(FillParts(text, sorted_sections, 1, InitialParts))

\* ------------------------------------------------------- execute_snippet
\* A filename is a sequence of tokens: word tokens, the digit "1", the
\* non-word "-" and the separator ".".
IsWordTok(t) == t \notin {".", "-", " "}
IsDigitTok(t) == t = "1"

\* filename.rsplit(".", 1)[0]
RSplitDot(filename) ==
    LET dots == {i \in DOMAIN filename : filename[i] = "."}
    IN IF dots = {} THEN filename
       ELSE SubSeq(filename, 1, (CHOOSE i \in dots : \A j \in dots : j <= i) - 1)

\* re.sub(r"\W|^(?=\d)", "_", name); f"df_{name}"
_sanitize_var_name(filename) ==
    LET name == RSplitDot(filename)
        replaced == [i \in DOMAIN name |->
                       IF IsWordTok(name[i]) THEN name[i] ELSE "_"]
        prefixed == IF name # << >> /\ IsDigitTok(name[1])
                    THEN <<"_">> \o replaced ELSE replaced
    IN <<"df_">> \o prefixed

FigName == <<"fig">>
DfName == <<"df">>

\* Variant of LibraryNamespace: the namespace of the previous call is reused.
LibraryNamespace_Reused ==
    IF exec_ns # << >> THEN exec_ns
    ELSE << <<(<<"pl">>), "polars">>, <<(<<"pd">>), "pandas">>,
            <<(<<"px">>), "plotly.express">>,
            <<(<<"go">>), "plotly.graph_objects">> >>

\* local_ns as first built: the common libraries
LibraryNamespace ==
    << <<(<<"pl">>), "polars">>, <<(<<"pd">>), "pandas">>,
       <<(<<"px">>), "plotly.express">>, <<(<<"go">>), "plotly.graph_objects">> >>

\* the loop binding each dataframe, then df for the first one
RECURSIVE BindDataframes(_, _, _)
BindDataframes(ns, dataframes, i) ==
    IF i > Len(dataframes) THEN ns
    ELSE BindDataframes(Put(ns, _sanitize_var_name(dataframes[i][1]),
                            dataframes[i][2]),
                        dataframes, i + 1)

PrepareNamespace(dataframes) ==
    LET bound == BindDataframes(LibraryNamespace, dataframes, 1)
    IN IF dataframes # << >> THEN Put(bound, DfName, dataframes[1][2])
       ELSE bound

\* A snippet is a text whose tokens are statements:
\*   "print('a')"           prints a
\*   "fig = 'f1'"           binds fig at the top level
\*   "raise Exception"      raises an Exception
\*   "exit()"               raises SystemExit, which is not an Exception
\* Any other token is not Python: exec raises SyntaxError before it runs
\* anything.
PrintStmt == "print('a')"
FigStmt == "fig = 'f1'"
RaiseStmt == "raise Exception"
ExitStmt == "exit()"
ValidStmts == {PrintStmt, FigStmt, RaiseStmt, ExitStmt}
ErrorDuringExecution == "\nError during execution: e\n"

RECURSIVE ExecFrom(_, _, _, _)
ExecFrom(code, i, ns, out) ==
    IF i > Len(code) THEN [ns |-> ns, out |-> out, raised |-> "no"]
    ELSE CASE code[i] = PrintStmt -> ExecFrom(code, i + 1, ns, Append(out, "a"))
           [] code[i] = FigStmt -> ExecFrom(code, i + 1, Put(ns, FigName, "f1"), out)
           [] code[i] = RaiseStmt -> [ns |-> ns, out |-> out, raised |-> "Exception"]
           [] code[i] = ExitStmt -> [ns |-> ns, out |-> out, raised |-> "SystemExit"]

\* exec(code, {}, local_ns) under redirect_stdout: the run stops at the
\* first statement that raises.
Exec(code, ns) ==
    IF \E i \in DOMAIN code : code[i] \notin ValidStmts
    THEN [ns |-> ns, out |-> << >>, raised |-> "Exception"]
    ELSE ExecFrom(code, 1, ns, << >>)

\* The call as a whole: the namespace after exec and what is returned.
\* SystemExit passes the except clause: the call returns nothing.
execute_snippet(code, dataframes) ==
    LET local_ns == PrepareNamespace(dataframes)
        run == Exec(code, local_ns)
        stdout == IF run.raised = "Exception"
                  THEN Append(run.out, ErrorDuringExecution) ELSE run.out
        figure == IF HasKey(run.ns, FigName)
                  THEN Some(Get(run.ns, FigName)) ELSE None
    IN [ns |-> run.ns,
        ret |-> IF run.raised = "SystemExit"
                THEN [status |-> "propagated", stdout |-> << >>, figure |-> None]
                ELSE [status |-> "returned", stdout |-> stdout, figure |-> figure]]

\* =========================================================================
\* The wizard: one script run per widget event
\* =========================================================================
\* A procedure returns the session and how control leaves it:
\*   "go"     it returned normally
\*   "rerun"  st.rerun() ended the script run and asked for the next one
\*   "stop"   st.stop(), or an exception that reached main's handler
Go(s) == [s |-> s, ctl |-> "go"]
Rerun(s) == [s |-> s, ctl |-> "rerun"]
Stop(s) == [s |-> s, ctl |-> "stop"]

NoEvent == [type |-> "none"]

\* str.format on a prompt template: KeyError for a template that names a
\* placeholder the stage does not pass.
FormatOk(template) == template # "bad"

StepCount == 6

\* ------------------------------------------------- process_uploaded_file
\* An upload is a file name and what reading it yields: "df" a dataframe,
\* "text" extracted text, "fail" a reader that raises or extracts nothing.
\* A file name is a sequence of tokens, "." among them.
ExtractedText == <<"t">>

\* os.path.splitext(name)[1]: from the last dot on, unless only dots
\* precede it
SplitExt(filename) ==
    LET dots == {i \in DOMAIN filename : filename[i] = "."}
        last == CHOOSE i \in dots : \A j \in dots : j <= i
    IN IF dots = {} THEN << >>
       ELSE IF \A j \in 1..(last - 1) : filename[j] = "." THEN << >>
       ELSE SubSeq(filename, last, Len(filename))

\* str.lower on the tokens used in file names
LowerTok(t) == CASE t = "CSV" -> "csv" [] t = "PDF" -> "pdf" [] OTHER -> t
LowerText(text) == [i \in DOMAIN text |-> LowerTok(text[i])]

\* file_extension as the source computes it
Extension(filename) == LowerText(SplitExt(filename))

\* process_csv_file / process_excel_file: any exception of the reader or of
\* the profile generation gives (None, None, "")
ReadTabular(upload) ==
    IF upload.yields = "df"
    THEN [df |-> Some("dataframe"),
          profile |-> Some([file_type |-> "tabular"]),
          text |-> << >>]
    ELSE [df |-> None, profile |-> None, text |-> << >>]

\* extract_text_from_docx / extract_text_from_pdf: "" on any exception
ExtractText(upload) ==
    IF upload.yields = "text" THEN ExtractedText ELSE << >>

\* the .docx and .pdf branches
TextResult(file_type, text) ==
    [df |-> None,
     profile |-> Some([file_type |-> file_type, text_length |-> Len(text)]),
     text |-> text]

\* process_uploaded_file without `.lower()`
process_uploaded_file_CaseSensitive(uploaded_file) ==
    IF uploaded_file = None
    THEN [df |-> None, profile |-> None, text |-> << >>]
    ELSE CASE SplitExt(uploaded_file[1].name) \in
                  {<<".", "csv">>, <<".", "xlsx">>, <<".", "xls">>} ->
                ReadTabular(uploaded_file[1])
           [] SplitExt(uploaded_file[1].name) = <<".", "docx">> ->
                TextResult("docx", ExtractText(uploaded_file[1]))
           [] SplitExt(uploaded_file[1].name) = <<".", "pdf">> ->
                TextResult("pdf", ExtractText(uploaded_file[1]))
           [] OTHER -> [df |-> None, profile |-> None, text |-> << >>]

\* uploaded_file is None or Some(upload)
process_uploaded_file(uploaded_file) ==
    IF uploaded_file = None
    THEN [df |-> None, profile |-> None, text |-> << >>]
    ELSE CASE Extension(uploaded_file[1].name) \in
                  {<<".", "csv">>, <<".", "xlsx">>, <<".", "xls">>} ->
                ReadTabular(uploaded_file[1])
           [] Extension(uploaded_file[1].name) = <<".", "docx">> ->
                TextResult("docx", ExtractText(uploaded_file[1]))
           [] Extension(uploaded_file[1].name) = <<".", "pdf">> ->
                TextResult("pdf", ExtractText(uploaded_file[1]))
           [] OTHER -> [df |-> None, profile |-> None, text |-> << >>]

\* ----------------------------------------------------- display_setup_step
\* the loop over uploaded_files; success_count is carried along
RECURSIVE ProcessUploads(_, _, _, _)
ProcessUploads(s, uploaded_files, i, success_count) ==
    IF i > Len(uploaded_files) THEN [s |-> s, success_count |-> success_count]
    ELSE LET uploaded_file == uploaded_files[i]
             r == process_uploaded_file(Some(uploaded_file))
             s1 == IF r.df # None
                   THEN [s EXCEPT
                           !.dataframes = Put(@, uploaded_file.name, r.df[1]),
                           !.data_profiles = Put(@, uploaded_file.name, r.profile[1])]
                   ELSE s
             s2 == IF r.text # << >>
                   THEN [s1 EXCEPT !.data_texts = Put(@, uploaded_file.name, r.text)]
                   ELSE s1
             n == success_count + (IF r.df # None THEN 1 ELSE 0)
                                + (IF r.text # << >> /\ r.df = None THEN 1 ELSE 0)
         IN ProcessUploads(s2, uploaded_files, i + 1, n)

RECURSIVE FileSummary(_, _)
FileSummary(names, label) ==
    IF names = << >> THEN << >>
    ELSE <<label>> \o Head(names)[1] \o FileSummary(Tail(names), label)

\* the branch of a submission that passed validation
ClearPrevious(s) ==
    [s EXCEPT !.dataframes = EmptyDict,
              !.data_profiles = EmptyDict,
              !.data_texts = EmptyDict,
              !.analysis_results = << >>,
              !.conversation_history = << >>,
              !.manager_plan = None,
              !.analyst_summary = None,
              !.associate_guidance = None,
              !.final_report = None]

\* if success_count > 0: ... else: st.error(...)
Initialize(done, ev) ==
    IF done.success_count > 0
    THEN Rerun(add_to_conversation(
             [done.s EXCEPT !.data_uploaded = TRUE,
                            !.project_initialized = TRUE,
                            !.current_step = 1,
                            !.project_name = ev.project_name,
                            !.problem_statement = ev.problem_statement,
                            !.data_context = ev.data_context],
             "user",
             <<"Project: ", ev.project_name>>
                 \o FileSummary(done.s.dataframes, "- Tabular: ")
                 \o FileSummary(done.s.data_texts, "- Text: ")))
    ELSE Go(done.s)

SetupAccepted(s, ev) ==
    TheOne({Initialize(done, ev) :
            done \in {ProcessUploads(ClearPrevious(s), ev.uploaded_files, 1, 0)}})

\* the form and its submit button
SetupForm(s, ev) ==
    IF ev.type # "setup_submit" THEN Go(s)
    ELSE IF s.gemini_api_key = "" THEN Go(s)
    ELSE IF \/ ev.project_name = ""
            \/ ev.problem_statement = ""
            \/ ev.uploaded_files = << >>
    THEN Go(s)
    ELSE SetupAccepted(s, ev)

\* "Next: Manager Planning", shown once the project is initialized
SetupNextButton(form, ev) ==
    IF form.ctl # "go" THEN form
    ELSE IF form.s.project_initialized /\ ev.type = "setup_next"
    THEN Rerun([form.s EXCEPT !.current_step = 1])
    ELSE form

display_setup_step(s, ev) ==
    TheOne({SetupNextButton(form, ev) : form \in {SetupForm(s, ev)}})


\* ------------------------------------------------------ the persona stages
\* The tail shared by the generate_* helpers: store an accepted response
\* under `key`, log it and rerun; log a rejected one as a system entry.
StoreOrReport(s, key, response, role, ok_label, err_label) ==
    IF ResponseAccepted(response)
    THEN Rerun(add_to_conversation(Set(s, key, Some(response)), role,
                                   <<ok_label>> \o response))
    ELSE Go(add_to_conversation(s, "system", <<err_label>> \o response))

generate_manager_plan(s, outcome) ==
    IF ~FormatOk(s.manager_prompt_template) THEN Go(s)
    ELSE StoreOrReport(s, "manager_plan", get_gemini_response(s, outcome),
                       "manager", "Generated Analysis Plan:\n",
                       "Error getting Manager plan: ")

\* generate_analyst_summary without the `if not ...manager_plan` return
generate_analyst_summary_NoPlanCheck(s, outcome) ==
    IF ~FormatOk(s.analyst_prompt_template) THEN Go(s)
    ELSE StoreOrReport(s, "analyst_summary", get_gemini_response(s, outcome),
                       "analyst", "Generated Data Summary:\n",
                       "Error getting Analyst summary: ")

generate_analyst_summary(s, outcome) ==
    IF ~Truthy(s.manager_plan) THEN Go(s)
    ELSE IF ~FormatOk(s.analyst_prompt_template) THEN Go(s)
    ELSE StoreOrReport(s, "analyst_summary", get_gemini_response(s, outcome),
                       "analyst", "Generated Data Summary:\n",
                       "Error getting Analyst summary: ")

generate_associate_guidance(s, outcome) ==
    IF ~Truthy(s.analyst_summary) \/ ~Truthy(s.manager_plan) THEN Go(s)
    ELSE IF ~FormatOk(s.associate_prompt_template) THEN Go(s)
    ELSE StoreOrReport(s, "associate_guidance", get_gemini_response(s, outcome),
                       "associate", "Generated Analysis Guidance:\n",
                       "Error getting Associate guidance: ")

Personas == {"Manager", "Reviewer"}
Lower(persona) == IF persona = "Manager" THEN "manager" ELSE "reviewer"

\* The "Consult with AI Persona" expander, the same in the three stages.
\* The Reviewer prompt is formatted outside any try: a KeyError ends the run.
Consult(s, ev, outcome) ==
    IF ev.request = "" THEN Go(s)
    ELSE IF ~check_api_key(s) THEN Stop(s)
    ELSE IF ev.persona = "Reviewer" /\ ~FormatOk(s.reviewer_prompt_template)
         THEN Stop(s)
    ELSE LET consult_response == get_gemini_response(s, outcome)
         IN IF ResponseAccepted(consult_response)
            THEN Rerun(add_to_conversation(
                     [s EXCEPT !.consultation_response = Some(consult_response),
                               !.consultation_persona = Some(ev.persona)],
                     Lower(ev.persona),
                     <<"Consultation Request: ", ev.request, "\n\nResponse:\n">>
                         \o consult_response))
            ELSE IF consult_response # << >>
            THEN Go(add_to_conversation(s, "system",
                     <<"Error getting consultation response: ">> \o consult_response))
            ELSE Go(add_to_conversation(s, "system",
                     <<"Failed to get consultation response.">>))

\* "Send Feedback" of the Manager stage
ManagerFeedback(s, ev, outcome) ==
    IF ev.feedback = "" THEN Go(s)
    ELSE IF ~check_api_key(s) THEN Stop(s)
    ELSE LET s1 == add_to_conversation(s, "user",
                       <<"Feedback on Manager Plan: ", ev.feedback>>)
         IN StoreOrReport(s1, "manager_plan", get_gemini_response(s1, outcome),
                          "manager", "Revised Plan based on feedback:\n",
                          "Error revising Manager plan: ")

\* the widgets below the plan; `auto` is how the automatic generation ended
ManagerWidgets(auto, ev, outcome) ==
    IF auto.ctl # "go" \/ ~Truthy(auto.s.manager_plan) THEN auto
    ELSE CASE ev.type = "regen_manager_plan" ->
                generate_manager_plan(auto.s, outcome)
           [] ev.type = "manager_feedback" ->
                ManagerFeedback(auto.s, ev, outcome)
           [] ev.type = "consult" -> Consult(auto.s, ev, outcome)
           [] ev.type = "manager_next" ->
                Rerun([auto.s EXCEPT !.current_step = 2])
           [] OTHER -> auto

display_manager_planning_step(s, ev, outcome) ==
    IF ~check_api_key(s) THEN Stop(s)
    ELSE TheOne({ManagerWidgets(auto, ev, outcome) :
                 auto \in {IF s.manager_plan = None
                           THEN generate_manager_plan(s, outcome) ELSE Go(s)}})

DataWidgets(auto, ev, outcome) ==
    IF auto.ctl # "go" \/ ~Truthy(auto.s.analyst_summary) THEN auto
    ELSE CASE ev.type = "regen_analyst_summary" ->
                generate_analyst_summary(auto.s, outcome)
           [] ev.type = "consult" -> Consult(auto.s, ev, outcome)
           [] ev.type = "data_next" ->
                Rerun([auto.s EXCEPT !.current_step = 3])
           [] OTHER -> auto

display_data_understanding_step(s, ev, outcome) ==
    IF ~check_api_key(s) THEN Stop(s)
    ELSE TheOne({DataWidgets(auto, ev, outcome) :
                 auto \in {IF s.analyst_summary = None
                           THEN generate_analyst_summary(s, outcome) ELSE Go(s)}})

GuidanceWidgets(auto, ev, outcome) ==
    IF auto.ctl # "go" \/ ~Truthy(auto.s.associate_guidance) THEN auto
    ELSE CASE ev.type = "regen_associate_guidance" ->
                generate_associate_guidance(auto.s, outcome)
           [] ev.type = "consult" -> Consult(auto.s, ev, outcome)
           [] ev.type = "guidance_next" ->
                Rerun([auto.s EXCEPT !.current_step = 4])
           [] OTHER -> auto

display_analysis_guidance_step(s, ev, outcome) ==
    IF ~check_api_key(s) THEN Stop(s)
    ELSE TheOne({GuidanceWidgets(auto, ev, outcome) :
                 auto \in {IF s.associate_guidance = None
                           THEN generate_associate_guidance(s, outcome) ELSE Go(s)}})


\* ------------------------------------------------------ run_analysis_task
\* the branch of an accepted response
AppendResult(s, task_to_run, selected_files, analyst_response, parsed_result) ==
    Rerun([add_to_conversation(
               add_to_conversation(s, "user",
                   <<"Requested Analyst Task: ">> \o task_to_run),
               "analyst", <<"Generated Analysis for Task:\n">> \o analyst_response)
           EXCEPT !.analysis_results =
               Append(@, [task |-> task_to_run,
                          files |-> selected_files,
                          approach |-> parsed_result.approach,
                          code |-> parsed_result.code,
                          results_text |-> parsed_result.results_text,
                          insights |-> parsed_result.insights])])

AnalystResponded(s, task_to_run, selected_files, analyst_response) ==
    IF ResponseAccepted(analyst_response)
    THEN TheOne({AppendResult(s, task_to_run, selected_files,
                              analyst_response, parsed_result) :
                 parsed_result \in
                     {parse_analyst_task_response(Some(analyst_response))}})
    ELSE Go(add_to_conversation(s, "system",
                <<"Error executing task: ">> \o analyst_response))

run_analysis_task(s, task_to_run, selected_files, outcome) ==
    IF ~HasKey(s.dataframes, selected_files[1]) THEN Go(s)
    ELSE IF ~FormatOk(s.analyst_task_prompt_template)
    THEN Go(add_to_conversation(s, "system",
                <<"Error formatting Analyst Task prompt: Missing key">>))
    ELSE AnalystResponded(s, task_to_run, selected_files,
                          get_gemini_response(s, outcome))

\* -------------------------------------- display_analysis_execution_step
DictKeys(d) == [i \in DOMAIN d |-> d[i][1]]

\* the two keys the stage creates when they are missing
InitExecutionKeys(s, suggested_tasks) ==
    [k \in (DOMAIN s) \cup {"show_guidance_expander_state",
                            "selected_task_execution"} |->
        IF k \in DOMAIN s THEN s[k]
        ELSE IF k = "show_guidance_expander_state" THEN FALSE
        ELSE IF suggested_tasks # << >> THEN suggested_tasks[1]
        ELSE ManualTask]

\* what the selectbox returns: the user's choice, else the stored value
\* when it is still an option, else the manual option
Selectbox(s, ev, options) ==
    IF ev.type = "select_task" /\ ev.task \in Range(options) THEN ev.task
    ELSE IF s.selected_task_execution \in Range(options)
    THEN s.selected_task_execution
    ELSE ManualTask

\* default_task_value: what the task text area is pre-filled with
TaskAreaValue(s) ==
    IF "selected_task_execution" \notin DOMAIN s THEN << >>
    ELSE IF s.selected_task_execution # ManualTask THEN s.selected_task_execution
    ELSE IF "manual_task_input" \in DOMAIN s THEN s.manual_task_input
    ELSE << >>

\* task_to_run: what the text area returns
TaskArea(s, ev) ==
    IF ev.type = "execute_task" THEN ev.task_to_run ELSE TaskAreaValue(s)

StoreManualInput(s, task_to_run) ==
    IF s.selected_task_execution = ManualTask
    THEN Set(s, "manual_task_input", task_to_run) ELSE s

StoreSelection(s, ev, options) ==
    Set(s, "selected_task_execution", Selectbox(s, ev, options))

StoreTaskArea(s, ev) == StoreManualInput(s, TaskArea(s, ev))

\* the session after the selectbox and the text area
TaskWidgets(s, ev, suggested_tasks) ==
    TheOne({StoreTaskArea(s1, ev) :
            s1 \in {StoreSelection(s0, ev, Append(suggested_tasks, ManualTask)) :
                       s0 \in {InitExecutionKeys(s, suggested_tasks)}}})

\* selected_files: what the multiselect returns
SelectedFiles(s, ev) ==
    IF s.dataframes = << >> THEN << >>
    ELSE IF ev.type = "execute_task"
    THEN SelectSeq(ev.selected_files,
                   LAMBDA f : f \in Range(DictKeys(s.dataframes)))
    ELSE <<DictKeys(s.dataframes)[1]>>

\* "Generate Analysis Code & Insights"
ExecuteButton(s, ev, outcome) ==
    IF ev.type # "execute_task" THEN Go(s)
    ELSE IF TaskArea(s, ev) = << >> THEN Go(s)
    ELSE IF SelectedFiles(s, ev) = << >> THEN Go(s)
    ELSE run_analysis_task(s, TaskArea(s, ev), SelectedFiles(s, ev), outcome)

\* "Get Insights from Pasted Output" / "... from Uploaded Plot": the prompt
\* is formatted outside any try.
InsightsResponded(s, key, insights_response, ok_label, err_label) ==
    IF ResponseAccepted(insights_response)
    THEN Rerun(add_to_conversation(Set(s, key, insights_response),
                   "analyst", <<ok_label>> \o insights_response))
    ELSE Go(add_to_conversation(s, "system",
                <<err_label>> \o insights_response))

Insights(s, key, outcome, ok_label, err_label) ==
    IF ~check_api_key(s) THEN Stop(s)
    ELSE IF ~FormatOk(s.analyst_task_prompt_template) THEN Stop(s)
    ELSE InsightsResponded(s, key, get_gemini_response(s, outcome),
                           ok_label, err_label)

\* "Run Code in App"
RunCodeButton(s, call) ==
    IF call.ret.status = "propagated" THEN Stop(s)
    ELSE Go(Set(Set(s, "internal_execution_output", call.ret.stdout),
                "internal_execution_fig", call.ret.figure))

\* the buttons of the results section; s holds last_generated_code already
ResultButtons(s, last_result, ev, outcome) ==
    CASE ev.type = "run_code" ->
           TheOne({RunCodeButton(s, call) :
                   call \in {execute_snippet(s.last_generated_code,
                                             s.dataframes)}})
      [] ev.type = "regen_last_task" ->
           run_analysis_task(
               [s EXCEPT !.analysis_results = SubSeq(@, 1, Len(@) - 1)],
               last_result.task, last_result.files, outcome)
      [] ev.type = "output_insights" ->
           IF ev.pasted_output = "" THEN Go(s)
           ELSE Insights(s, "output_insights", outcome,
                         "Insights from Pasted Output:\n",
                         "Error getting insights from output: ")
      [] ev.type = "plot_insights" ->
           Insights(s, "plot_insights", outcome,
                    "Insights from Uploaded Plot Description:\n",
                    "Error getting insights from plot description: ")
      [] OTHER -> Go(s)

\* edited_code: what the code text area returns
EditedCodeArea(last_result, ev) ==
    IF ev.type = "run_code" THEN ev.code ELSE last_result.code

\* the part below "Analysis Task Results" when a result exists
ResultsSection(s, ev, outcome) ==
    TheOne({ResultButtons(s1, s.analysis_results[Len(s.analysis_results)],
                          ev, outcome) :
            s1 \in {Set(s, "last_generated_code",
                        EditedCodeArea(s.analysis_results[Len(s.analysis_results)],
                                       ev))}})

\* "Next: Final Report" without the `if not ...analysis_results` warning
NextFinalReport_NoResultsCheck(results, ev) ==
    IF results.ctl # "go" THEN results
    ELSE IF ev.type = "exec_next"
    THEN Rerun([results.s EXCEPT !.current_step = 5])
    ELSE results

\* "Next: Final Report"
NextFinalReport(results, ev) ==
    IF results.ctl # "go" THEN results
    ELSE IF ev.type = "exec_next" /\ results.s.analysis_results # << >>
    THEN Rerun([results.s EXCEPT !.current_step = 5])
    ELSE results

AfterExecuteButton(executed, ev, outcome) ==
    IF executed.ctl # "go" THEN executed
    ELSE TheOne({NextFinalReport(results, ev) :
                 results \in {IF executed.s.analysis_results # << >>
                              THEN ResultsSection(executed.s, ev, outcome)
                              ELSE executed}})

\* from the file selection on; s is the session after the task widgets
ExecutionBody(s, ev, outcome) ==
    IF s.dataframes = << >> THEN Stop(s)
    ELSE TheOne({AfterExecuteButton(executed, ev, outcome) :
                 executed \in {ExecuteButton(s, ev, outcome)}})

display_analysis_execution_step(s, ev, outcome) ==
    IF ~check_api_key(s) THEN Stop(s)
    ELSE IF ~Truthy(s.associate_guidance)
    THEN (IF ev.type = "exec_go_back"
          THEN Rerun([s EXCEPT !.current_step = 3]) ELSE Stop(s))
    ELSE TheOne({ExecutionBody(s1, ev, outcome) :
                 s1 \in {TaskWidgets(s, ev, suggested_tasks) :
                            suggested_tasks \in
                                {parse_associate_tasks(s.associate_guidance)}}})

\* ---------------------------------------------- display_final_report_step
display_final_report_step(s, ev, outcome) ==
    IF ~check_api_key(s) THEN Stop(s)
    ELSE IF \/ ~Truthy(s.manager_plan) \/ ~Truthy(s.analyst_summary)
            \/ s.analysis_results = << >>
    THEN (IF ev.type = "report_go_to"
          THEN Rerun([s EXCEPT !.current_step = ev.step]) ELSE Stop(s))
    ELSE IF s.final_report = None /\ ev.type = "generate_report"
    THEN IF ~FormatOk(s.manager_report_prompt_template)
         THEN Go(add_to_conversation(s, "system",
                     <<"Error formatting Manager Report prompt: Missing key">>))
         ELSE StoreOrReport(s, "final_report", get_gemini_response(s, outcome),
                            "manager", "Generated Final Report:\n",
                            "Error generating final report: ")
    ELSE Go(s)

\* ------------------------------------------------------------------ main
\* The sidebar: what the widgets return is stored back; the navigation
\* radio and the reset button exist for an initialized project only.
Sidebar(s, ev) ==
    LET s1 == [s EXCEPT !.gemini_api_key =
                   IF ev.type = "api_key" THEN ev.key ELSE @]
        current_idx == IF 0 <= s1.current_step /\ s1.current_step < StepCount
                       THEN s1.current_step ELSE 0
        new_step_index == IF ev.type = "select_step" THEN ev.step ELSE current_idx
        settings == [k \in DOMAIN s1 |->
                        IF ev.type = "setting" /\ ev.key = k THEN ev.value
                        ELSE s1[k]]
    IN IF s1.project_initialized /\ new_step_index # s1.current_step
       THEN Rerun([s1 EXCEPT !.current_step = new_step_index])
       ELSE IF s1.project_initialized /\ ev.type = "reset"
       THEN Rerun(reset_session(s1))
       ELSE Go(settings)

\* Dispatch without the `if not st.session_state.project_initialized` branch
Dispatch_ByStepOnly(side, ev, outcome) ==
    IF side.ctl # "go" THEN side
    ELSE IF side.s.gemini_api_key = "" /\ ~side.s.project_initialized
    THEN Stop(side.s)
    ELSE CASE side.s.current_step = 0 -> display_setup_step(side.s, ev)
           [] side.s.current_step = 1 ->
                display_manager_planning_step(side.s, ev, outcome)
           [] side.s.current_step = 2 ->
                display_data_understanding_step(side.s, ev, outcome)
           [] side.s.current_step = 3 ->
                display_analysis_guidance_step(side.s, ev, outcome)
           [] side.s.current_step = 4 ->
                display_analysis_execution_step(side.s, ev, outcome)
           [] side.s.current_step = 5 ->
                display_final_report_step(side.s, ev, outcome)
           [] OTHER -> Go(side.s)

Dispatch(side, ev, outcome) ==
    IF side.ctl # "go" THEN side
    ELSE IF side.s.gemini_api_key = "" /\ ~side.s.project_initialized
    THEN Stop(side.s)
    ELSE IF ~side.s.project_initialized THEN display_setup_step(side.s, ev)
    ELSE CASE side.s.current_step = 0 -> display_setup_step(side.s, ev)
           [] side.s.current_step = 1 ->
                display_manager_planning_step(side.s, ev, outcome)
           [] side.s.current_step = 2 ->
                display_data_understanding_step(side.s, ev, outcome)
           [] side.s.current_step = 3 ->
                display_analysis_guidance_step(side.s, ev, outcome)
           [] side.s.current_step = 4 ->
                display_analysis_execution_step(side.s, ev, outcome)
           [] side.s.current_step = 5 ->
                display_final_report_step(side.s, ev, outcome)
           [] OTHER -> Go(side.s)

main(s, ev, outcome) ==
    TheOne({Dispatch(side, ev, outcome) : side \in {Sidebar(s, ev)}})


\* =========================================================================
\* SpecTasks: parse_associate_tasks applied to every bounded guidance text
\* =========================================================================
Texts(toks, n) == UNION {[1..k -> toks] : k \in 0..n}

GuidanceToks == {"Task 1:", "**Task 2:**", "x", " ", Newline, StopTok,
                 "Manually define task below"}
GuidanceInputs == {None} \cup {Some(t) : t \in Texts(GuidanceToks, MaxGuidanceLen)}

NotCalled == [called |-> FALSE, value |-> << >>]
Returned(v) == [called |-> TRUE, value |-> v]

NoWizard == ss = defaults /\ rerun = FALSE /\ last_event = "none"
NoTasks == guidance_in = None /\ tasks_out = NotCalled
NoAnalyst == response_in = None /\ parts_out = NotCalled
NoUpload == upload_in = None /\ upload_out = NotCalled
NoExec == /\ exec_code = << >> /\ exec_dfs = << >>
          /\ exec_ns = << >> /\ exec_ret = NotCalled

InitTasks == /\ guidance_in \in GuidanceInputs
             /\ tasks_out = NotCalled
             /\ NoWizard /\ NoAnalyst /\ NoExec /\ NoUpload

ParseAssociateTasks ==
    /\ ~tasks_out.called
    /\ tasks_out' = Returned(parse_associate_tasks(guidance_in))
    /\ UNCHANGED <<guidance_in, wizard_vars, analyst_vars, exec_vars, upload_vars>>

NextTasks == ParseAssociateTasks
SpecTasks == InitTasks /\ [][NextTasks]_vars

\* =========================================================================
\* SpecAnalyst: parse_analyst_task_response applied to every bounded text
\* =========================================================================
ResponseToks == {"Approach:", "Python Code:", "Results:", "Key Insights:",
                 "x", " ", Newline, Bold, "<fence>"}
ResponseInputs == {None} \cup {Some(t) : t \in Texts(ResponseToks, MaxResponseLen)}

InitAnalyst == /\ response_in \in ResponseInputs
               /\ parts_out = NotCalled
               /\ NoWizard /\ NoTasks /\ NoExec /\ NoUpload

ParseAnalystTaskResponse ==
    /\ ~parts_out.called
    /\ parts_out' = Returned(parse_analyst_task_response(response_in))
    /\ UNCHANGED <<response_in, wizard_vars, tasks_vars, exec_vars, upload_vars>>

NextAnalyst == ParseAnalystTaskResponse
SpecAnalyst == InitAnalyst /\ [][NextAnalyst]_vars

\* =========================================================================
\* SpecExec: a sequence of execute_snippet calls
\* =========================================================================
SnippetToks == ValidStmts \cup {"x"}
Snippets == Texts(SnippetToks, MaxSnippetLen)

FileA == <<"a", ".", "csv">>
FileA2 == <<"a", ".", "xlsx">>
FileB == <<"b", ".", "pdf">>
DataframeDicts == { << >>,
                    << <<FileA, "dataframe">> >>,
                    << <<FileA2, "dataframe2">> >>,
                    << <<FileA, "dataframe">>, <<FileA2, "dataframe2">> >> }

InitExec == NoExec /\ NoWizard /\ NoTasks /\ NoAnalyst /\ NoUpload

ExecuteSnippet ==
    \E code \in Snippets, dataframes \in DataframeDicts :
        LET call == execute_snippet(code, dataframes)
        IN /\ exec_code' = code
           /\ exec_dfs' = dataframes
           /\ exec_ns' = call.ns
           /\ exec_ret' = Returned(call.ret)
           /\ UNCHANGED <<wizard_vars, tasks_vars, analyst_vars, upload_vars>>

NextExec == ExecuteSnippet
SpecExec == InitExec /\ [][NextExec]_vars

\* =========================================================================
\* SpecUpload: process_uploaded_file applied to every bounded upload
\* =========================================================================
MaxNameLen == 3
NameToks == {"a", ".", "csv", "CSV", "xlsx", "xls", "docx", "pdf", "PDF", "txt"}
UploadNames == Texts(NameToks, MaxNameLen) \ {<< >>}
UploadInputs == {None} \cup {Some([name |-> n, yields |-> y]) :
                                n \in UploadNames, y \in {"df", "text", "fail"}}

InitUpload == /\ upload_in \in UploadInputs /\ upload_out = NotCalled
              /\ NoWizard /\ NoTasks /\ NoAnalyst /\ NoExec

ProcessUploadedFile ==
    /\ upload_out = NotCalled
    /\ upload_out' = Returned(process_uploaded_file(upload_in))
    /\ UNCHANGED <<upload_in, wizard_vars, tasks_vars, analyst_vars, exec_vars>>

NextUpload == ProcessUploadedFile
SpecUpload == InitUpload /\ [][NextUpload]_vars

\* =========================================================================
\* Spec: the wizard, one action per widget event, each a whole script run
\* =========================================================================
Init == NoWizard /\ NoTasks /\ NoAnalyst /\ NoExec /\ NoUpload

\* the sidebar widgets the user edits, and the values given to each
EditedSettings == {"analyst_task_prompt_template"}
SettingValues(k) == CASE k = "library_management" -> LibraryOptions
                      [] k = "gemini_model" -> Models
                      [] OTHER -> TemplateValues

UploadSets == { <<[name |-> FileA, yields |-> "df"]>>,
                <<[name |-> FileA, yields |-> "fail"]>>,
                <<[name |-> FileB, yields |-> "text"]>>,
                << >> }

CustomTask == <<"custom">>
\* the user types a task of their own only with the manual option selected
TaskTexts(s) ==
    {TaskAreaValue(s)}
    \cup (IF "selected_task_execution" \in DOMAIN s
              /\ s.selected_task_execution = ManualTask
           THEN {CustomTask} ELSE {})
EditedCode == {<<PrintStmt>>, <<FigStmt, RaiseStmt>>, <<ExitStmt>>}

\* The sessions explored.  A straight pass through the stages logs one
\* response of each of these kinds.  A detour is any other logged response
\* (a repeated one, a failure, a consultation, an error message taken for a
\* response), an optional output the log does not account for, an edited
\* setting, or a key removed from a running project (counted once, together
\* with the message a request without key would log).
StraightLabels == {"Generated Analysis Plan:\n", "Generated Data Summary:\n",
                   "Generated Analysis Guidance:\n",
                   "Generated Analysis for Task:\n", "Generated Final Report:\n"}
IsStraight(h, i) == /\ Head(h[i].content) \in StraightLabels
                    /\ "Error" \notin Range(h[i].content)
                    /\ \A j \in 1..(i - 1) : h[j] # h[i]
ExtraEntries(h) ==
    Cardinality({i \in DOMAIN h : h[i].role # "user" /\ ~IsStraight(h, i)})
Logged(h, label) == \E i \in DOMAIN h : Head(h[i].content) = label
OptionalOutputs(s) ==
    LET h == s.conversation_history
        Held(k) == k \in DOMAIN s /\ s[k] # << >>
        EditedCodeHeld ==
            /\ Held("last_generated_code")
            /\ IF s.analysis_results = << >>
               THEN ~Logged(h, "Generated Analysis for Task:\n")
               ELSE s.last_generated_code
                        # s.analysis_results[Len(s.analysis_results)].code
    IN {k \in {"internal_execution_output", "manual_task_input"} : Held(k)}
       \cup (IF EditedCodeHeld THEN {"last_generated_code"} ELSE {})
       \cup (IF Held("consultation_response") /\ ~Logged(h, "Consultation Request: ")
             THEN {"consultation_response"} ELSE {})
       \cup (IF Held("output_insights") /\ ~Logged(h, "Insights from Pasted Output:\n")
             THEN {"output_insights"} ELSE {})
       \cup (IF Held("plot_insights")
                /\ ~Logged(h, "Insights from Uploaded Plot Description:\n")
             THEN {"plot_insights"} ELSE {})
Detours(s) ==
    ExtraEntries(s.conversation_history)
    + Cardinality(OptionalOutputs(s))
    + Cardinality({k \in PromptKeys \cup {"gemini_model", "library_management"} :
                      s[k] # defaults[k]})
    + (IF /\ s.project_initialized /\ s.gemini_api_key = ""
          /\ \A i \in DOMAIN s.conversation_history :
                 Tail(s.conversation_history[i].content) # ErrNoKey
       THEN 1 ELSE 0)
WithinBounds(s) == Detours(s) <= MaxDetours

\* events of the text inputs, the radio and the select boxes
NonButtonEvents == {"none", "api_key", "select_step", "setting", "select_task"}

\* One script run: main from top to bottom, or up to st.rerun()/st.stop().
Commit(r, ev) ==
    /\ WithinBounds(r.s)
    /\ ss' = r.s
    /\ rerun' = (r.ctl = "rerun")
    /\ last_event' = IF ev.type \in NonButtonEvents THEN "none" ELSE ev.type
    /\ UNCHANGED <<tasks_vars, analyst_vars, exec_vars, upload_vars>>

Run(ev, outcome) == \E r \in {main(ss, ev, outcome)} : Commit(r, ev)

\* what the last run left on the page
KeyOk == ss.gemini_api_key # ""
Stage(k) == ss.project_initialized /\ ss.current_step = k /\ KeyOk
SetupShown == IF ss.project_initialized THEN ss.current_step = 0 ELSE KeyOk
ManagerShown == Stage(1) /\ Truthy(ss.manager_plan)
DataShown == Stage(2) /\ Truthy(ss.analyst_summary)
GuidanceShown == Stage(3) /\ Truthy(ss.associate_guidance)
ExecShown == Stage(4) /\ Truthy(ss.associate_guidance) /\ ss.dataframes # << >>
ResultsShown == ExecShown /\ ss.analysis_results # << >>
ReportBlocked == Stage(5) /\ (\/ ~Truthy(ss.manager_plan)
                              \/ ~Truthy(ss.analyst_summary)
                              \/ ss.analysis_results = << >>)

\* the run st.rerun() asked for, or a run no widget event carries
ScriptRerun == \E o \in LLMOutcomes : Run(NoEvent, o)

SidebarApiKey ==
    /\ ~rerun
    /\ \E k \in ApiKeys, o \in LLMOutcomes :
          k # ss.gemini_api_key /\ Run([type |-> "api_key", key |-> k], o)

SidebarSelectStep ==
    /\ ~rerun /\ ss.project_initialized
    /\ \E i \in 0..(StepCount - 1) :
          i # ss.current_step /\ Run([type |-> "select_step", step |-> i], "ok")

SidebarResetProject ==
    /\ ~rerun /\ ss.project_initialized
    /\ Run([type |-> "reset"], "ok")

SidebarSetting ==
    /\ ~rerun
    /\ \E k \in EditedSettings, o \in LLMOutcomes : \E v \in SettingValues(k) :
          /\ v # ss[k]
          /\ Run([type |-> "setting", key |-> k, value |-> v], o)

SetupSubmit ==
    /\ ~rerun /\ SetupShown
    /\ \E pn \in {"", "P"}, ps \in {"Q"}, dc \in {""}, up \in UploadSets :
          Run([type |-> "setup_submit", project_name |-> pn,
               problem_statement |-> ps, data_context |-> dc,
               uploaded_files |-> up], "ok")

SetupNext ==
    /\ ~rerun /\ SetupShown /\ ss.project_initialized
    /\ Run([type |-> "setup_next"], "ok")

ManagerRegenerate ==
    /\ ~rerun /\ ManagerShown
    /\ \E o \in LLMOutcomes : Run([type |-> "regen_manager_plan"], o)

ManagerSendFeedback ==
    /\ ~rerun /\ ManagerShown
    /\ \E fb \in {"", "fb"}, o \in LLMOutcomes :
          Run([type |-> "manager_feedback", feedback |-> fb], o)

ConsultPersona ==
    /\ ~rerun /\ (ManagerShown \/ DataShown \/ GuidanceShown)
    /\ \E rq \in {"", "rq"}, p \in Personas, o \in LLMOutcomes :
          Run([type |-> "consult", request |-> rq, persona |-> p], o)

ManagerNext == ~rerun /\ ManagerShown /\ Run([type |-> "manager_next"], "ok")

DataRegenerate ==
    /\ ~rerun /\ DataShown
    /\ \E o \in LLMOutcomes : Run([type |-> "regen_analyst_summary"], o)

DataNext == ~rerun /\ DataShown /\ Run([type |-> "data_next"], "ok")

GuidanceRegenerate ==
    /\ ~rerun /\ GuidanceShown
    /\ \E o \in LLMOutcomes : Run([type |-> "regen_associate_guidance"], o)

GuidanceNext == ~rerun /\ GuidanceShown /\ Run([type |-> "guidance_next"], "ok")

ExecGoBack ==
    /\ ~rerun /\ Stage(4) /\ ~Truthy(ss.associate_guidance)
    /\ Run([type |-> "exec_go_back"], "ok")

ExecSelectTask ==
    /\ ~rerun /\ ExecShown
    /\ \E t \in Range(parse_associate_tasks(ss.associate_guidance)) \cup {ManualTask} :
          Run([type |-> "select_task", task |-> t], "ok")

ExecuteTask ==
    /\ ~rerun /\ ExecShown
    /\ \E t \in TaskTexts(ss),
          f \in {<<DictKeys(ss.dataframes)[1]>>, << >>},
          o \in LLMOutcomes :
          Run([type |-> "execute_task", task_to_run |-> t,
               selected_files |-> f], o)

RunCode ==
    /\ ~rerun /\ ResultsShown
    /\ \E c \in EditedCode \cup {ss.analysis_results[Len(ss.analysis_results)].code} :
          Run([type |-> "run_code", code |-> c], "ok")

RegenerateLastTask ==
    /\ ~rerun /\ ResultsShown
    /\ \E o \in LLMOutcomes : Run([type |-> "regen_last_task"], o)

InsightsFromOutput ==
    /\ ~rerun /\ ResultsShown
    /\ \E po \in {"", "out"}, o \in LLMOutcomes :
          Run([type |-> "output_insights", pasted_output |-> po], o)

InsightsFromPlot ==
    /\ ~rerun /\ ResultsShown
    /\ \E o \in LLMOutcomes : Run([type |-> "plot_insights"], o)

ExecNext == ~rerun /\ ExecShown /\ Run([type |-> "exec_next"], "ok")

ReportGoTo ==
    /\ ~rerun /\ ReportBlocked
    /\ \E i \in {1, 2, 4} : Run([type |-> "report_go_to", step |-> i], "ok")

GenerateFinalReport ==
    /\ ~rerun /\ Stage(5) /\ ~ReportBlocked /\ ss.final_report = None
    /\ \E o \in LLMOutcomes : Run([type |-> "generate_report"], o)

Next ==
    \/ ScriptRerun
    \/ SidebarApiKey \/ SidebarSelectStep \/ SidebarResetProject \/ SidebarSetting
    \/ SetupSubmit \/ SetupNext
    \/ ManagerRegenerate \/ ManagerSendFeedback \/ ManagerNext \/ ConsultPersona
    \/ DataRegenerate \/ DataNext
    \/ GuidanceRegenerate \/ GuidanceNext
    \/ ExecGoBack \/ ExecSelectTask \/ ExecuteTask \/ RunCode
    \/ RegenerateLastTask \/ InsightsFromOutput \/ InsightsFromPlot \/ ExecNext
    \/ ReportGoTo \/ GenerateFinalReport

Spec == Init /\ [][Next]_vars

\* =========================================================================
\* Claims about the parsers and the sandbox
\* =========================================================================
TaskLines(text) == splitlines(Strip(text))
IsStopLine(line) == StopTok \in Range(line)

\* A "Task N:" header line occurs before any stop line.
HeaderBeforeStop(text) ==
    \E i \in DOMAIN TaskLines(text) :
        /\ header_match(TaskLines(text)[i])
        /\ \A j \in 1..i : ~IsStopLine(TaskLines(text)[j])

\* The text in front of the first stop line (the whole text without one).
BeforeStop(text) ==
    LET lines == TaskLines(text)
        stops == {i \in DOMAIN lines : IsStopLine(lines[i])}
    IN IF stops = {} THEN Join(lines)
       ELSE Join(SubSeq(lines, 1, (CHOOSE i \in stops : \A j \in stops : i <= j) - 1))

Occurs(sub, text) ==
    \E p \in 1..(Len(text) - Len(sub) + 1) : SubSeq(text, p, p + Len(sub) - 1) = sub

\* C6 as stated: for every guidance text, no returned task contains the
\* stop line "5. Develop Narrative:" (or text after it).
C6_NoTaskContainsStopLine ==
    tasks_out.called =>
        \A i \in DOMAIN tasks_out.value : StopTok \notin Range(tasks_out.value[i])

\* C6 amended: when a "Task N:" header line occurs before the stop line,
\* no returned task contains the stop line, and every returned task other
\* than the manual option is text found in front of the stop line.
C6_BlocksEndAtStopLine ==
    (tasks_out.called /\ Truthy(guidance_in) /\ HeaderBeforeStop(guidance_in[1])) =>
        \A i \in DOMAIN tasks_out.value :
            /\ StopTok \notin Range(tasks_out.value[i])
            /\ \/ tasks_out.value[i] = ManualTask
               \/ Occurs(tasks_out.value[i], BeforeStop(guidance_in[1]))

C6_Witness ==
    /\ tasks_out.called /\ Truthy(guidance_in)
    /\ HeaderBeforeStop(guidance_in[1])
    /\ \E i \in 1..(Len(guidance_in[1]) - 1) :
          guidance_in[1][i] = StopTok /\ guidance_in[1][i + 1] = "x"
    /\ Len(tasks_out.value) = 2

FirstIndex(sq, x) == CHOOSE i \in DOMAIN sq : sq[i] = x /\ \A j \in 1..(i - 1) : sq[j] # x

\* C8: the returned list has no two equal entries, and the task blocks are
\* all kept, in the order of their first occurrence in the guidance text.
C8_DedupPreservesOrder ==
    tasks_out.called =>
        /\ \A i, j \in DOMAIN tasks_out.value :
              tasks_out.value[i] = tasks_out.value[j] => i = j
        /\ (Truthy(guidance_in) /\ TaskBlocks(guidance_in[1]) # << >>) =>
              LET blocks == TaskBlocks(guidance_in[1])
                  kept == SubSeq(tasks_out.value, 1, Len(tasks_out.value) - 1)
              IN /\ Range(kept) = Range(blocks)
                 /\ \A i, j \in DOMAIN kept :
                       i < j => FirstIndex(blocks, kept[i]) < FirstIndex(blocks, kept[j])

C8_Witness ==
    /\ tasks_out.called /\ Truthy(guidance_in)
    /\ Len(TaskBlocks(guidance_in[1])) > Cardinality(Range(TaskBlocks(guidance_in[1])))
    /\ Cardinality(Range(TaskBlocks(guidance_in[1]))) = 2
    /\ Len(tasks_out.value) = 3

PartsTokens == ResponseToks \cup UNION {Range(InitialParts[k]) : k \in DOMAIN InitialParts}
                 \cup Range(NoResponseParts.approach)

\* C5: for every response text (None, empty, without a recognised header,
\* headers in any order) the result has exactly the keys approach, code,
\* results_text and insights, each bound to a string.
C5_ParseAnalystTotal ==
    parts_out.called =>
        /\ DOMAIN parts_out.value = {"approach", "code", "results_text", "insights"}
        /\ \A k \in DOMAIN parts_out.value : parts_out.value[k] \in Seq(PartsTokens)

\* Results header in front of the Approach header, both recognised.
C5_Witness ==
    /\ parts_out.called /\ Truthy(response_in)
    /\ \E i, j \in DOMAIN response_in[1] :
          /\ i < j
          /\ response_in[1][i] = "Results:" /\ response_in[1][j] = "Approach:"
    /\ parts_out.value.results_text # InitialParts.results_text
    /\ parts_out.value.approach = <<"x">>

\* The statements of a snippet that run: none when a token is not Python,
\* otherwise those before the first that raises.
RECURSIVE UntilRaise(_)
UntilRaise(code) ==
    IF code = << >> \/ Head(code) \in {RaiseStmt, ExitStmt} THEN << >>
    ELSE <<Head(code)>> \o UntilRaise(Tail(code))

IsPython(code) == \A i \in DOMAIN code : code[i] \in ValidStmts
RunPrefix(code) == IF IsPython(code) THEN UntilRaise(code) ELSE << >>

\* what ends the run: "no", "Exception" or "SystemExit"
Raises(code) ==
    IF ~IsPython(code) THEN "Exception"
    ELSE IF Len(UntilRaise(code)) = Len(code) THEN "no"
    ELSE IF code[Len(UntilRaise(code)) + 1] = RaiseStmt THEN "Exception"
    ELSE "SystemExit"

Printed(code) == [i \in 1..Cardinality({j \in DOMAIN code : code[j] = PrintStmt}) |-> "a"]

\* The value assigned to fig, or None.
AssignedFig(code) == IF FigStmt \in Range(code) THEN Some("f1") ELSE None

\* C10 as stated: the call returns (stdout, figure) with stdout exactly
\* what the snippet printed and figure the value the snippet assigned to
\* fig, None when it assigned none.
C10_StdoutExactlyPrinted ==
    (exec_ret.called /\ exec_ret.value.status = "returned") =>
        /\ exec_ret.value.stdout = Printed(RunPrefix(exec_code))
        /\ exec_ret.value.figure = AssignedFig(RunPrefix(exec_code))

\* C10 amended: unless the snippet raises something that is not an
\* Exception, the call returns (stdout, figure): stdout is what the snippet
\* printed, followed by the "Error during execution" line when the snippet
\* raised an Exception; figure is the value this snippet assigned to fig,
\* None when it assigned none, whatever earlier calls assigned.
C10_StdoutAndFigure ==
    exec_ret.called =>
        /\ exec_ret.value.status = "returned" <=> Raises(exec_code) # "SystemExit"
        /\ exec_ret.value.status = "returned" =>
              /\ exec_ret.value.stdout =
                    Printed(RunPrefix(exec_code)) \o
                    (IF Raises(exec_code) = "Exception"
                     THEN <<ErrorDuringExecution>> ELSE << >>)
              /\ exec_ret.value.figure = AssignedFig(RunPrefix(exec_code))

\* A snippet that prints, raises an Exception and assigns no fig.
C10_Witness ==
    /\ exec_ret.called
    /\ exec_ret.value.status = "returned"
    /\ exec_ret.value.figure = None
    /\ exec_ret.value.stdout = <<"a", ErrorDuringExecution>>

\* -------------------------------------------------------------------------
\* The wizard: what the session holds after each script run
\* -------------------------------------------------------------------------
OutputKeys == {"manager_plan", "analyst_summary", "associate_guidance",
               "analysis_results", "final_report"}

\* the entries the step appended to the conversation history
NewEntries == {i \in DOMAIN ss'.conversation_history :
                  i > Len(ss.conversation_history)}

\* the step made an LLM call that returned one of the error messages (every
\* call's return value is logged, after the label of its entry)
CallReturnedError ==
    \E i \in NewEntries : Tail(ss'.conversation_history[i].content) \in ErrorMessages

\* C1: whenever get_gemini_response returns an error message of any kind
\* during a script run, the run leaves manager_plan, analyst_summary,
\* associate_guidance, analysis_results and final_report unchanged.
C1_FailedCallStoresNothing ==
    [][CallReturnedError => \A k \in OutputKeys : ss'[k] = ss[k]]_vars

\* C2: in every reachable session, analyst_summary set implies manager_plan
\* set, associate_guidance set implies analyst_summary and manager_plan set,
\* and analysis_results non-empty implies associate_guidance set.
C2_OutputsGatedByPriorOutputs ==
    /\ ss.analyst_summary # None => ss.manager_plan # None
    /\ ss.associate_guidance # None =>
           ss.analyst_summary # None /\ ss.manager_plan # None
    /\ ss.analysis_results # << >> => ss.associate_guidance # None

\* a session at the Execution stage that holds all four outputs
C2_Witness ==
    /\ ss.analysis_results # << >>
    /\ ss.associate_guidance # None
    /\ ss.analyst_summary # None
    /\ ss.manager_plan # None
    /\ ss.current_step = 4

\* C3: in every reachable session in which final_report is set,
\* manager_plan and analyst_summary are set and analysis_results holds at
\* least one result.
C3_ReportImpliesPrerequisites ==
    ss.final_report # None =>
        /\ ss.manager_plan # None
        /\ ss.analyst_summary # None
        /\ ss.analysis_results # << >>

NextButtons == [setup_next |-> 0, manager_next |-> 1, data_next |-> 2,
                guidance_next |-> 3, exec_next |-> 4]

\* C4 as stated: current_step is always in 0..5, a successful setup
\* submission sets it to 1, and the Next button of the stage at index k
\* (k = 0..4) sets it to exactly k + 1.
C4_NextAlwaysAdvances ==
    /\ ss.current_step \in 0..(StepCount - 1)
    /\ [][/\ ss'.current_step \in 0..(StepCount - 1)
          /\ last_event' = "setup_submit" /\ rerun' => ss'.current_step = 1
          /\ \A b \in DOMAIN NextButtons :
                last_event' = b => ss'.current_step = NextButtons[b] + 1]_vars

\* C4, amended: current_step is always in 0..5, a successful setup
\* submission sets it to 1, the Next button of the stage at index k
\* (k = 0..3) sets it to k + 1, and "Next: Final Report" (k = 4) sets it to 5
\* when analysis_results is non-empty and leaves it at 4 when it is empty.
C4_NextAdvancesWhenResults ==
    /\ ss.current_step \in 0..(StepCount - 1)
    /\ [][/\ ss'.current_step \in 0..(StepCount - 1)
          /\ last_event' = "setup_submit" /\ rerun' => ss'.current_step = 1
          /\ \A b \in DOMAIN NextButtons \ {"exec_next"} :
                last_event' = b => ss'.current_step = NextButtons[b] + 1
          /\ last_event' = "exec_next" =>
                ss'.current_step = IF ss.analysis_results # << >> THEN 5 ELSE 4]_vars

\* "Next: Final Report" pressed with a result present
C4_Witness ==
    /\ last_event = "exec_next"
    /\ ss.analysis_results # << >>
    /\ ss.current_step = 5

SettingKeys == {"gemini_api_key", "gemini_model", "library_management"}
                   \cup PromptKeys
ClearedKeys == {"dataframes", "data_profiles", "data_texts",
                "analysis_results", "conversation_history"}
NoneKeys == {"manager_plan", "analyst_summary", "associate_guidance",
             "final_report", "consultation_response", "reviewer_response"}

C11_EveryFileBound ==
    exec_ret.called =>
        /\ exec_dfs # << >> =>
               /\ HasKey(exec_ns, DfName)
               /\ Get(exec_ns, DfName) = exec_dfs[1][2]
        /\ \A i \in DOMAIN exec_dfs :
               /\ HasKey(exec_ns, _sanitize_var_name(exec_dfs[i][1]))
               /\ Get(exec_ns, _sanitize_var_name(exec_dfs[i][1])) = exec_dfs[i][2]

\* -------------------------------------------------------------------------
\* process_uploaded_file: the result for each kind of upload
\* -------------------------------------------------------------------------
\* the name ends in a dot and one of the extensions, in either case, with
\* something other than dots before it
EndsIn(name, exts) ==
    /\ Len(name) >= 3
    /\ name[Len(name)] \in exts
    /\ name[Len(name) - 1] = "."
    /\ \E j \in 1..(Len(name) - 2) : name[j] # "."
TabularExts == {"csv", "CSV", "xlsx", "xls"}
TextExts == {"docx", "pdf", "PDF"}
NothingRead == [df |-> None, profile |-> None, text |-> << >>]

C13_NoRequestWithoutKey ==
    [][/\ \A i \in NewEntries :
             Tail(ss'.conversation_history[i].content) # ErrNoKey
       /\ ss'.gemini_api_key = "" /\ last_event' # "reset" =>
             /\ \A k \in OutputKeys : ss'[k] = ss[k]
             /\ ss'.conversation_history = ss.conversation_history]_vars

\* a run that entered Data Understanding without a key and without a
\* summary: the stage stopped instead of requesting one
C13_Witness ==
    /\ ss.project_initialized
    /\ ss.gemini_api_key = ""
    /\ ss.current_step = 2
    /\ ss.analyst_summary = None
    /\ ~rerun

\* -------------------------------------------------------------------------
\* The wizard: before the project is initialized
\* -------------------------------------------------------------------------
\* widget events of the sidebar navigation, the reset button and the stages
\* after Setup, sent to a session whatever it displays
ProbeEvents ==
    {[type |-> "select_step", step |-> 3], [type |-> "reset"],
     [type |-> "none"], [type |-> "regen_manager_plan"],
     [type |-> "manager_next"], [type |-> "regen_analyst_summary"],
     [type |-> "regen_associate_guidance"], [type |-> "exec_next"],
     [type |-> "regen_last_task"], [type |-> "generate_report"],
     [type |-> "report_go_to", step |-> 4]}

\* C14: while project_initialized is False no persona output exists, and a
\* script run shows the Setup stage whatever current_step is: it ignores
\* step navigation and reset, and it creates or changes no persona output.
C14_SetupOnlyUntilInitialized ==
    ~ss.project_initialized =>
        /\ \A k \in OutputKeys : ss[k] = defaults[k]
        /\ \A step \in 0..(StepCount - 1), ev \in ProbeEvents, o \in LLMOutcomes :
              main([ss EXCEPT !.current_step = step], ev, o).s
                  = [ss EXCEPT !.current_step = step]

\* a session with a key whose setup submission was rejected
C14_Witness ==
    /\ ~ss.project_initialized
    /\ ss.gemini_api_key = "key"
    /\ last_event = "setup_submit"

\* -------------------------------------------------------------------------
\* The wizard: setup submissions
\* -------------------------------------------------------------------------
PreviousOutputs == {"manager_plan", "analyst_summary", "associate_guidance",
                    "final_report", "analysis_results", "consultation_response",
                    "reviewer_response", "output_insights", "plot_insights",
                    "internal_execution_output"}

\* C15: after a setup submission that passed validation and was accepted,
\* no output generated for the previous project remains in the session:
\* each of the outputs is absent, None or empty, and conversation_history
\* holds the new project's entry only.
C15_SubmissionClearsOutputs ==
    [][last_event' = "setup_submit" /\ rerun' =>
          /\ \A k \in PreviousOutputs :
                k \in DOMAIN ss' => ss'[k] = << >>
          /\ Len(ss'.conversation_history) = 1]_vars

\* C16: in every reachable session where project_initialized is True, at
\* least one uploaded file is stored: dataframes or data_texts is non-empty.
C16_InitializedHasData ==
    ss.project_initialized =>
        ss.dataframes # << >> \/ ss.data_texts # << >>

\* C17: in every reachable session, each filename that is a key of
\* dataframes or of data_texts is also a key of data_profiles.
C17_EveryStoredFileHasProfile ==
    \A name \in Keys(ss.dataframes) \cup Keys(ss.data_texts) :
        HasKey(ss.data_profiles, name)

\* The outcome the fallback chain names for a guidance text.
FallbackResult(guidance) ==
    IF ~Truthy(guidance) THEN << >>
    ELSE IF Strip(guidance[1]) = << >> THEN <<DefaultTaskPrompt>>
    ELSE <<Strip(guidance[1]), ManualTask>>

\* C18 as stated: for None or empty guidance the result is the empty list,
\* for a blank guidance text it is the single default prompt, and for a
\* non-blank text in which no "Task N:" header line is found it is exactly
\* the two-element list [stripped text, "Manually define task below"].
C18_FallbackChain ==
    (tasks_out.called /\ (Truthy(guidance_in) => ~HeaderBeforeStop(guidance_in[1]))) =>
        tasks_out.value = FallbackResult(guidance_in)

\* C18 amended: the same, except that a text which is itself "Manually
\* define task below" (after stripping) is returned once, as a one-element
\* list.
C18_FallbackChainUnlessManual ==
    (tasks_out.called /\ (Truthy(guidance_in) => ~HeaderBeforeStop(guidance_in[1]))) =>
        tasks_out.value =
            IF Truthy(guidance_in) /\ Strip(guidance_in[1]) = ManualTask
            THEN <<ManualTask>>
            ELSE FallbackResult(guidance_in)

C18_Witness ==
    /\ tasks_out.called /\ Truthy(guidance_in)
    /\ ~HeaderBeforeStop(guidance_in[1])
    /\ \E i \in DOMAIN guidance_in[1] : guidance_in[1][i] \in TaskHeaderToks
    /\ Len(tasks_out.value) = 2
    /\ tasks_out.value[1] = Strip(guidance_in[1])
    /\ tasks_out.value[2] = ManualTask

EnterApiKey ==
    /\ ss.gemini_api_key = ""
    /\ SidebarApiKey

\* a script run in which the LLM call succeeds
ScriptRunOk == Run(NoEvent, "ok")

ExecuteTaskOk ==
    /\ ~rerun /\ ExecShown
    /\ \E t \in TaskTexts(ss) :
          Run([type |-> "execute_task", task_to_run |-> t,
               selected_files |-> <<DictKeys(ss.dataframes)[1]>>], "ok")

GenerateFinalReportOk ==
    /\ ~rerun /\ Stage(5) /\ ~ReportBlocked /\ ss.final_report = None
    /\ Run([type |-> "generate_report"], "ok")

NextLive ==
    \/ ScriptRerun
    \/ EnterApiKey
    \/ SetupSubmit
    \/ ManagerNext \/ DataNext \/ GuidanceNext
    \/ ExecuteTask \/ ExecNext
    \/ GenerateFinalReport

Fairness ==
    /\ WF_vars(ScriptRunOk)
    /\ WF_vars(ManagerNext) /\ WF_vars(DataNext) /\ WF_vars(GuidanceNext)
    /\ WF_vars(ExecuteTaskOk) /\ WF_vars(ExecNext)
    /\ WF_vars(GenerateFinalReportOk)

SpecLive == Init /\ [][NextLive]_vars /\ Fairness

\* the setup form accepted the submission: st.rerun() after "Project
\* initialized!"
ProjectAccepted == last_event = "setup_submit" /\ rerun

\* C20: from every state reached by a successful setup submission with an
\* API key set, the session eventually holds a final report.
C20_AcceptedReachesReport ==
    (ProjectAccepted /\ ss.gemini_api_key # "") ~> Truthy(ss.final_report)

====
